---- MODULE Spec2Model ----
(***************************************************************************)
(* Model of servidor_dbstream.py: the /direct, /validate and /proxy        *)
(* handlers, the validation cache url_cache and the chunked relay          *)
(* generator.  Strings that the code inspects (URLs, patterns) are         *)
(* sequences of one-character strings, so that lower(), "in" and           *)
(* endswith() are computed as the code computes them.                      *)
(***************************************************************************)
EXTENDS Integers, Sequences, FiniteSets, TLC

\* ------------------------------------------------------------------------
\* Strings
\* ------------------------------------------------------------------------
UpperCase ==
  <<"A", "B", "C", "D", "E", "F", "G", "H", "I", "J", "K", "L", "M", "N", "O", "P", "Q", "R", "S", "T", "U", "V", "W", "X", "Y", "Z">>

LowerCase ==
  <<"a", "b", "c", "d", "e", "f", "g", "h", "i", "j", "k", "l", "m", "n", "o", "p", "q", "r", "s", "t", "u", "v", "w", "x", "y", "z">>

\* str.lower() on one character
lowerChar(c) ==
  IF \E i \in 1..Len(UpperCase) : UpperCase[i] = c
    THEN LowerCase[CHOOSE i \in 1..Len(UpperCase) : UpperCase[i] = c]
    ELSE c

\* str.lower()
lower(s) ==
  [i \in 1..Len(s) |-> lowerChar(s[i])]

\* pattern in s
Contains(pattern, s) ==
  \E i \in 0..(Len(s) - Len(pattern)) :
    \A j \in 1..Len(pattern) : s[i + j] = pattern[j]

\* s.endswith(ext)
EndsWith(s, ext) ==
  /\ Len(ext) <= Len(s)
  /\ \A j \in 1..Len(ext) : s[Len(s) - Len(ext) + j] = ext[j]

\* ------------------------------------------------------------------------
\* The patterns the code tests for, and the request URLs that are explored
\* ------------------------------------------------------------------------
\* ".mkv"
P_mkv ==
  <<".", "m", "k", "v">>

\* ".avi"
P_avi ==
  <<".", "a", "v", "i">>

\* ".mp4"
P_mp4 ==
  <<".", "m", "p", "4">>

\* "/movie/"
P_movie ==
  <<"/", "m", "o", "v", "i", "e", "/">>

\* "/serie/"
P_serie ==
  <<"/", "s", "e", "r", "i", "e", "/">>

\* "e98asvyr.okfsdo.xyz"
P_e98 ==
  <<"e", "9", "8", "a", "s", "v", "y", "r", ".", "o", "k", "f", "s", "d", "o", ".", "x", "y", "z">>

\* "kcdrdbcx.upne.xyz"
P_kcd ==
  <<"k", "c", "d", "r", "d", "b", "c", "x", ".", "u", "p", "n", "e", ".", "x", "y", "z">>

\* ".m3u8"
P_m3u8 ==
  <<".", "m", "3", "u", "8">>

\* ".ts"
P_ts ==
  <<".", "t", "s">>

\* "/proxy?url="
ProxyPrefix ==
  <<"/", "p", "r", "o", "x", "y", "?", "u", "r", "l", "=">>

\* "http://c/Live/ch1.m3u8"
U_hls ==
  <<"h", "t", "t", "p", ":", "/", "/", "c", "/", "L", "i", "v", "e", "/", "c", "h", "1", ".", "m", "3", "u", "8">>

\* "http://c/s1.TS"
U_ts ==
  <<"h", "t", "t", "p", ":", "/", "/", "c", "/", "s", "1", ".", "T", "S">>

\* "http://c/f.bin"
U_bin ==
  <<"h", "t", "t", "p", ":", "/", "/", "c", "/", "f", ".", "b", "i", "n">>

\* "http://c/serie/a.ts"
U_serie ==
  <<"h", "t", "t", "p", ":", "/", "/", "c", "/", "s", "e", "r", "i", "e", "/", "a", ".", "t", "s">>

\* "http://c/movie/a.ts"
U_movie ==
  <<"h", "t", "t", "p", ":", "/", "/", "c", "/", "m", "o", "v", "i", "e", "/", "a", ".", "t", "s">>

\* "http://c/a.MKV"
U_mkv ==
  <<"h", "t", "t", "p", ":", "/", "/", "c", "/", "a", ".", "M", "K", "V">>

\* "http://c/a.avi"
U_avi ==
  <<"h", "t", "t", "p", ":", "/", "/", "c", "/", "a", ".", "a", "v", "i">>

\* "http://c/a.mp4"
U_mp4 ==
  <<"h", "t", "t", "p", ":", "/", "/", "c", "/", "a", ".", "m", "p", "4">>

\* "http://kcdrdbcx.upne.xyz/a.m3u8"
U_kc ==
  <<"h", "t", "t", "p", ":", "/", "/", "k", "c", "d", "r", "d", "b", "c", "x", ".", "u", "p", "n", "e", ".", "x", "y", "z", "/", "a", ".", "m", "3", "u", "8">>

\* "http://KCDRDBCX.UPNE.XYZ/a.m3u8"
U_KC ==
  <<"h", "t", "t", "p", ":", "/", "/", "K", "C", "D", "R", "D", "B", "C", "X", ".", "U", "P", "N", "E", ".", "X", "Y", "Z", "/", "a", ".", "m", "3", "u", "8">>

\* "http://e98asvyr.okfsdo.xyz/a.ts"
U_e9 ==
  <<"h", "t", "t", "p", ":", "/", "/", "e", "9", "8", "a", "s", "v", "y", "r", ".", "o", "k", "f", "s", "d", "o", ".", "x", "y", "z", "/", "a", ".", "t", "s">>
\* The url query parameter when it is missing or empty ("not url")
NoUrl ==
  <<>>

\* Every URL explored, in a fixed order
AllURLs ==
  <<U_hls, U_ts, U_bin, U_serie, U_movie, U_mkv, U_avi, U_mp4, U_kc, U_KC,
    U_e9>>

URLS ==
  {AllURLs[i] : i \in 1..Len(AllURLs)}

\* hashlib.md5(url.encode()).hexdigest(): a fixed-width digest, free of
\* collisions on the explored URLs; the digest of a URL is its number
md5(u) ==
  CHOOSE i \in 1..Len(AllURLs) : AllURLs[i] = u

\* urllib.parse.quote on one character (safe: letters, digits, "_.-~/")
quoteChar(c) ==
  IF c = ":" THEN <<"%", "3", "A">>
  ELSE IF c = "?" THEN <<"%", "3", "F">>
  ELSE IF c = "=" THEN <<"%", "3", "D">>
  ELSE <<c>>

RECURSIVE quote(_)
\* urllib.parse.quote
quote(s) ==
  IF s = <<>> THEN <<>> ELSE quoteChar(Head(s)) \o quote(Tail(s))

\* ------------------------------------------------------------------------
\* Program constants and bounds
\* ------------------------------------------------------------------------
CACHE_TTL ==
  300

chunk_size ==
  32768

\* Latest clock reading explored
MaxTime ==
  301

\* Number of chunk_size blocks in the largest origin body explored
MaxBlocks ==
  2

\* Reads of a relay that may return fewer bytes than asked for
MaxShortReads ==
  2

\* Calls of can_use_direct explored
MaxCalls ==
  2

\* Clock readings explored: around the TTL boundary
Instants ==
  {t \in {0, CACHE_TTL - 1, CACHE_TTL, CACHE_TTL + 1, CACHE_TTL + 2,
          2 * CACHE_TTL} : t <= MaxTime}

\* Origin body lengths explored: around the multiples of chunk_size
BodyLens ==
  {n \in {b * chunk_size + d : b \in 0..MaxBlocks, d \in {-1, 0, 1}} : n >= 0}

\* Request slots; the specification Spec serves requests one at a time
Reqs ==
  {1, 2}

Serial ==
  {1}

\* ------------------------------------------------------------------------
\* State
\* ------------------------------------------------------------------------
VARIABLES
  call,          \* the latest call of can_use_direct: argument, result, count
  now,           \* time.time()
  url_cache,     \* url_cache: digest -> <<cached_time, is_valid>>
  pc,            \* position of each request
  kind,          \* endpoint of each request
  url,           \* request.args.get("url")
  range_header,  \* request.headers.get('Range')
  current_time,  \* is_valid_stream_url's local current_time
  upreq,         \* upstream requests issued for each request, in order
  resp,          \* response returned by the handler
  up,            \* upstream response handle of a relay
  chunk,         \* chunk yielded by generate() and not yet written out
  sent,          \* chunks written to the client, in order
  total_bytes    \* generate()'s local total_bytes

vars ==
  <<now, url_cache, pc, kind, url, range_header, current_time, upreq, resp,
    up, chunk, sent, total_bytes, call>>

\* ------------------------------------------------------------------------
\* Values
\* ------------------------------------------------------------------------
None ==
  "None"

\* A header dictionary with one more entry
Put(h, name, value) ==
  [n \in DOMAIN h \cup {name} |-> IF n = name THEN value ELSE h[n]]

\* dict.get / getheader with a default
Get(h, name, default) ==
  IF name \in DOMAIN h THEN h[name] ELSE default

NoHeaders ==
  [n \in {} |-> None]

NoJson ==
  [error |-> None, suggestion |-> None, proxy_url |-> <<>>, status |-> None,
   url |-> <<>>, content_type |-> None, content_length |-> None]

NoResp ==
  [status |-> 0, json |-> NoJson, location |-> <<>>, headers |-> NoHeaders]

\* jsonify({"error": text}), status
ErrorResponse(status, text) ==
  [NoResp EXCEPT !.status = status, !.json.error = text]

NoUp ==
  [fault |-> None, code |-> 0, headers |-> NoHeaders, body_len |-> 0,
   pos |-> 0, open |-> FALSE]

\* No call of can_use_direct was made yet
NoCall ==
  [url |-> NoUrl, result |-> None, calls |-> 0]

NoChunk ==
  [off |-> 0, len |-> 0]

UserAgent ==
  "VLC/3.0.18 LibVLC/3.0.18"

\* The probe request of is_valid_stream_url and validate_url
HeadRequest(u, timeout) ==
  [method |-> "HEAD", url |-> u, timeout |-> timeout,
   headers |-> [n \in {"User-Agent"} |-> UserAgent]]

\* ------------------------------------------------------------------------
\* URL classification
\* ------------------------------------------------------------------------
\* direct_redirect's inline test for files that must use the proxy
RequiresProxy(u) ==
  \/ Contains(P_mkv, lower(u))
  \/ Contains(P_avi, lower(u))
  \/ Contains(P_mp4, lower(u))
  \/ Contains(P_movie, lower(u))
  \/ Contains(P_e98, lower(u))
  \/ Contains(P_kcd, lower(u))

forbidden_patterns ==
  <<P_mkv, P_avi, P_mp4, P_movie, P_serie, P_e98, P_kcd>>

direct_compatible ==
  <<P_m3u8, P_ts>>

\* can_use_direct testing the extension before the forbidden patterns
can_use_direct_extension_first(u) ==
  IF \E i \in 1..Len(direct_compatible) :
       EndsWith(lower(u), direct_compatible[i])
    THEN TRUE
    ELSE FALSE

\* can_use_direct(url); the code defines it and no handler calls it
can_use_direct(u) ==
  IF \E i \in 1..Len(forbidden_patterns) :
       Contains(forbidden_patterns[i], lower(u))
    THEN FALSE
    ELSE \E i \in 1..Len(direct_compatible) :
           EndsWith(lower(u), direct_compatible[i])

\* proxy's domain-specific headers: the tests are on the URL as given
DomainHeaders(u) ==
  IF Contains(P_kcd, u)
    THEN [n \in {"Referer", "Origin"} |->
            IF n = "Referer" THEN "https://185.233.16.71/"
            ELSE "https://185.233.16.71"]
    ELSE IF Contains(P_e98, u)
      THEN [n \in {"Referer", "Origin"} |->
              IF n = "Referer" THEN "http://185.233.16.71/"
              ELSE "http://185.233.16.71"]
      ELSE NoHeaders

\* The classifications of the explored URLs, computed once
requires_proxy ==
  [u \in URLS |-> RequiresProxy(u)]

direct_allowed ==
  [u \in URLS |-> can_use_direct(u)]

domain_headers ==
  [u \in URLS |-> DomainHeaders(u)]

url_hash ==
  [u \in URLS |-> md5(u)]

\* ------------------------------------------------------------------------
\* Validation cache
\* ------------------------------------------------------------------------
\* Fresh with the operands of the subtraction swapped
FreshSwapped(t, cached_time) ==
  cached_time - t < CACHE_TTL

\* The cached entry is still inside the TTL window
Fresh(t, cached_time) ==
  t - cached_time < CACHE_TTL

\* CacheHit that trusts only the entries recorded as reachable
CacheHitReachableOnly(cache, h, t) ==
  /\ h \in DOMAIN cache
  /\ t - cache[h][1] < CACHE_TTL
  /\ cache[h][2]

\* The lookup of is_valid_stream_url answers from the cache
CacheHit(cache, h, t) ==
  /\ h \in DOMAIN cache
  /\ Fresh(t, cache[h][1])

\* Record that edits the verdict of an existing entry in place
RecordVerdictOnly(cache, h, t, is_valid) ==
  [k \in DOMAIN cache \cup {h} |->
     IF k = h
       THEN <<IF h \in DOMAIN cache THEN cache[h][1] ELSE t, is_valid>>
       ELSE cache[k]]

\* Record that keeps a stored entry whose timestamp is newer than t
RecordFreshest(cache, h, t, is_valid) ==
  IF h \in DOMAIN cache /\ cache[h][1] > t
    THEN cache
    ELSE [k \in DOMAIN cache \cup {h} |->
            IF k = h THEN <<t, is_valid>> ELSE cache[k]]

\* Record that also drops the other entries whose TTL has run out
RecordEvicting(cache, h, t, is_valid) ==
  [k \in {h} \cup {j \in DOMAIN cache : t - cache[j][1] < CACHE_TTL} |->
     IF k = h THEN <<t, is_valid>> ELSE cache[k]]

\* url_cache[url_hash] = (current_time, is_valid)
Record(cache, h, t, is_valid) ==
  [k \in DOMAIN cache \cup {h} |-> IF k = h THEN <<t, is_valid>> ELSE cache[k]]

\* ------------------------------------------------------------------------
\* Init
\* ------------------------------------------------------------------------
Init ==
  /\ now = 0
  /\ url_cache = [h \in {} |-> <<0, FALSE>>]
  /\ pc = [r \in Reqs |-> "idle"]
  /\ kind = [r \in Reqs |-> None]
  /\ url = [r \in Reqs |-> NoUrl]
  /\ range_header = [r \in Reqs |-> None]
  /\ current_time = [r \in Reqs |-> 0]
  /\ upreq = [r \in Reqs |-> <<>>]
  /\ resp = [r \in Reqs |-> NoResp]
  /\ up = [r \in Reqs |-> NoUp]
  /\ chunk = [r \in Reqs |-> NoChunk]
  /\ sent = [r \in Reqs |-> <<>>]
  /\ total_bytes = [r \in Reqs |-> 0]
  /\ call = NoCall

\* ------------------------------------------------------------------------
\* The clock
\* ------------------------------------------------------------------------
Tick ==
  /\ \E t \in Instants : t > now /\ now' = t
  /\ UNCHANGED <<call, url_cache, pc, kind, url, range_header, current_time, upreq,
                 resp, up, chunk, sent, total_bytes>>

\* ------------------------------------------------------------------------
\* /direct
\* ------------------------------------------------------------------------
MissingUrl ==
  ErrorResponse(400, "Parametro 'url' requerido")

\* The 400 answer that sends the caller to the proxy
UseProxyResponse(u) ==
  [NoResp EXCEPT !.status = 400,
                 !.json.error = "Este tipo de archivo requiere proxy tradicional",
                 !.json.suggestion = "use_proxy",
                 !.json.proxy_url = ProxyPrefix \o quote(u)]

\* Redirect to the lower-cased URL
RedirectLowered(u) ==
  [NoResp EXCEPT !.status = 302, !.location = lower(u)]

\* redirect(url, code=302)
Redirect(u) ==
  [NoResp EXCEPT !.status = 302, !.location = u]

\* The answer of direct_redirect once is_valid_stream_url has returned
DirectAnswer(u, is_valid) ==
  IF is_valid THEN Redirect(u)
  ELSE ErrorResponse(400, "URL no valida o inaccesible")

\* URLs requested on /direct
DirectURLs ==
  (URLS \ {U_ts}) \cup {NoUrl}

\* GET /direct up to the point where the probe is in flight
direct_redirect(r) ==
  /\ pc[r] = "idle"
  /\ \E u \in DirectURLs :
       /\ kind' = [kind EXCEPT ![r] = "direct"]
       /\ url' = [url EXCEPT ![r] = u]
       /\ IF u = NoUrl
            THEN /\ resp' = [resp EXCEPT ![r] = MissingUrl]
                 /\ pc' = [pc EXCEPT ![r] = "done"]
                 /\ UNCHANGED <<current_time, upreq>>
            ELSE IF requires_proxy[u]
              THEN /\ resp' = [resp EXCEPT ![r] = UseProxyResponse(u)]
                   /\ pc' = [pc EXCEPT ![r] = "done"]
                   /\ UNCHANGED <<current_time, upreq>>
              ELSE /\ current_time' = [current_time EXCEPT ![r] = now]
                   /\ IF CacheHit(url_cache, url_hash[u], now)
                        THEN /\ resp' = [resp EXCEPT ![r] =
                                   DirectAnswer(u, url_cache[url_hash[u]][2])]
                             /\ pc' = [pc EXCEPT ![r] = "done"]
                             /\ UNCHANGED upreq
                        ELSE /\ upreq' = [upreq EXCEPT ![r] =
                                   Append(@, HeadRequest(u, 5))]
                             /\ pc' = [pc EXCEPT ![r] = "probing"]
                             /\ UNCHANGED resp
  /\ UNCHANGED <<call, now, url_cache, range_header, up, chunk, sent, total_bytes>>

\* is_valid_stream_url that probes a second time after a failed probe
is_valid_stream_url_retry(r) ==
  /\ pc[r] = "probing"
  /\ \E reachable \in BOOLEAN :
       /\ url_cache' = Record(url_cache, url_hash[url[r]], current_time[r],
                              reachable)
       /\ resp' = [resp EXCEPT ![r] = DirectAnswer(url[r], reachable)]
       /\ upreq' = [upreq EXCEPT ![r] =
             IF reachable THEN @ ELSE Append(@, HeadRequest(url[r], 5))]
  /\ pc' = [pc EXCEPT ![r] = "done"]
  /\ UNCHANGED <<call, now, kind, url, range_header, current_time, up, chunk,
                 sent, total_bytes>>

\* The probe of is_valid_stream_url returns: the verdict is cached under the
\* clock reading taken before the probe, and direct_redirect answers
is_valid_stream_url(r) ==
  /\ pc[r] = "probing"
  /\ \E reachable \in BOOLEAN :
       /\ url_cache' = Record(url_cache, url_hash[url[r]], current_time[r],
                              reachable)
       /\ resp' = [resp EXCEPT ![r] = DirectAnswer(url[r], reachable)]
  /\ pc' = [pc EXCEPT ![r] = "done"]
  /\ UNCHANGED <<call, now, kind, url, range_header, current_time, upreq, up, chunk,
                 sent, total_bytes>>

\* ------------------------------------------------------------------------
\* /direct as concurrent threads run it: the test "url_hash in url_cache"
\* and the read of the entry are separate steps
\* ------------------------------------------------------------------------
\* URLs requested on /direct by overlapping requests
ConcURLs ==
  {U_hls, U_bin}

\* GET /direct up to the test "url_hash in url_cache"
direct_enter(r) ==
  /\ pc[r] = "idle"
  /\ \E u \in ConcURLs :
       /\ kind' = [kind EXCEPT ![r] = "direct"]
       /\ url' = [url EXCEPT ![r] = u]
       /\ IF u = NoUrl
            THEN /\ resp' = [resp EXCEPT ![r] = MissingUrl]
                 /\ pc' = [pc EXCEPT ![r] = "done"]
                 /\ UNCHANGED <<current_time, upreq>>
            ELSE IF requires_proxy[u]
              THEN /\ resp' = [resp EXCEPT ![r] = UseProxyResponse(u)]
                   /\ pc' = [pc EXCEPT ![r] = "done"]
                   /\ UNCHANGED <<current_time, upreq>>
              ELSE /\ current_time' = [current_time EXCEPT ![r] = now]
                   /\ UNCHANGED resp
                   /\ IF url_hash[u] \in DOMAIN url_cache
                        THEN /\ pc' = [pc EXCEPT ![r] = "cached"]
                             /\ UNCHANGED upreq
                        ELSE /\ upreq' = [upreq EXCEPT ![r] =
                                   Append(@, HeadRequest(u, 5))]
                             /\ pc' = [pc EXCEPT ![r] = "probing"]
  /\ UNCHANGED <<call, now, url_cache, range_header, up, chunk, sent, total_bytes>>

\* "cached_time, is_valid = url_cache[url_hash]" and the TTL test; the read
\* of a key that is gone raises KeyError and the request ends in a 500
cache_read(r) ==
  /\ pc[r] = "cached"
  /\ IF url_hash[url[r]] \notin DOMAIN url_cache
       THEN /\ resp' = [resp EXCEPT ![r] =
                  ErrorResponse(500, "Internal Server Error")]
            /\ pc' = [pc EXCEPT ![r] = "crashed"]
            /\ UNCHANGED upreq
       ELSE IF Fresh(current_time[r], url_cache[url_hash[url[r]]][1])
         THEN /\ resp' = [resp EXCEPT ![r] =
                    DirectAnswer(url[r], url_cache[url_hash[url[r]]][2])]
              /\ pc' = [pc EXCEPT ![r] = "done"]
              /\ UNCHANGED upreq
         ELSE /\ upreq' = [upreq EXCEPT ![r] =
                    Append(@, HeadRequest(url[r], 5))]
              /\ pc' = [pc EXCEPT ![r] = "probing"]
              /\ UNCHANGED resp
  /\ UNCHANGED <<call, now, url_cache, kind, url, range_header, current_time, up,
                 chunk, sent, total_bytes>>

\* ------------------------------------------------------------------------
\* /validate
\* ------------------------------------------------------------------------
\* What the origin answers to a HEAD request: no answer (any failure), or
\* the headers of its response
ProbeResults ==
  {[ok |-> FALSE, headers |-> NoHeaders],
   [ok |-> TRUE, headers |-> NoHeaders],
   [ok |-> TRUE,
    headers |-> [n \in {"Content-Type", "Content-Length"} |->
                   IF n = "Content-Type" THEN "application/vnd.apple.mpegurl"
                   ELSE "512"]]}

\* validate_url answering a failed probe without the status 400
ValidateAnswerNoStatus(u, probe) ==
  IF probe.ok
    THEN [NoResp EXCEPT
            !.status = 200,
            !.json.status = "valid",
            !.json.url = u,
            !.json.content_type = Get(probe.headers, "Content-Type", ""),
            !.json.content_length =
               Get(probe.headers, "Content-Length", "unknown")]
    ELSE [NoResp EXCEPT !.status = 200,
                        !.json.status = "invalid",
                        !.json.error = "str(e)"]

\* jsonify of validate_url's two answers
ValidateAnswer(u, probe) ==
  IF probe.ok
    THEN [NoResp EXCEPT
            !.status = 200,
            !.json.status = "valid",
            !.json.url = u,
            !.json.content_type = Get(probe.headers, "Content-Type", ""),
            !.json.content_length =
               Get(probe.headers, "Content-Length", "unknown")]
    ELSE [NoResp EXCEPT !.status = 400,
                        !.json.status = "invalid",
                        !.json.error = "str(e)"]

\* GET /validate: one HEAD request, no use of url_cache
validate_url(r) ==
  /\ pc[r] = "idle"
  /\ \E u \in URLS \cup {NoUrl} :
       /\ kind' = [kind EXCEPT ![r] = "validate"]
       /\ url' = [url EXCEPT ![r] = u]
       /\ IF u = NoUrl
            THEN /\ resp' = [resp EXCEPT ![r] = MissingUrl]
                 /\ UNCHANGED upreq
            ELSE /\ upreq' = [upreq EXCEPT ![r] =
                       Append(@, HeadRequest(u, 10))]
                 /\ \E probe \in ProbeResults :
                      resp' = [resp EXCEPT ![r] = ValidateAnswer(u, probe)]
  /\ pc' = [pc EXCEPT ![r] = "done"]
  /\ UNCHANGED <<call, now, url_cache, range_header, current_time, up, chunk, sent,
                 total_bytes>>

\* ------------------------------------------------------------------------
\* /proxy: the handler
\* ------------------------------------------------------------------------
\* Ways the upstream request of /proxy fails before a response is returned
UpstreamFaults ==
  {"dns", "refused", "connect_timeout", "read_timeout", "bad_status_line",
   "http_status"}

\* The exception urllib.request.urlopen raises for each fault: a failure to
\* connect is wrapped in URLError, a status outside 2xx is an HTTPError, and
\* a failure while the response is awaited is raised as it is
Raised(fault) ==
  CASE fault \in {"dns", "refused", "connect_timeout"} -> "URLError"
    [] fault = "http_status" -> "HTTPError"
    [] fault = "read_timeout" -> "TimeoutError"
    [] fault = "bad_status_line" -> "HTTPException"

\* proxy's except clauses, in order
ProxyErrorResponse(exception) ==
  IF exception = "HTTPError"
    THEN ErrorResponse(502, "Error HTTP {e.code}: {e.reason}")
    ELSE IF exception = "URLError"
      THEN ErrorResponse(502, "Error de conexion: {e.reason}")
      ELSE ErrorResponse(500, "Error interno en el proxy")

\* The default headers of the upstream request
DefaultHeaders ==
  [n \in {"User-Agent", "Accept", "Accept-Language", "Connection",
          "Cache-Control"} |->
     CASE n = "User-Agent" -> UserAgent
       [] n = "Accept" -> "*/*"
       [] n = "Accept-Language" -> "es-ES,es;q=0.9,en;q=0.8"
       [] n = "Connection" -> "keep-alive"
       [] n = "Cache-Control" -> "no-cache"]

\* headers.update(...)
Update(h, more) ==
  [n \in DOMAIN h \cup DOMAIN more |-> IF n \in DOMAIN more THEN more[n] ELSE h[n]]

\* "if range_header": None and the empty string are both false
Truthy(s) ==
  s # None /\ s # ""

\* The request proxy sends to the origin
ProxyRequest(u, rh) ==
  [method |-> "GET", url |-> u, timeout |-> 30,
   headers |-> IF Truthy(rh)
                 THEN Put(Update(DefaultHeaders, domain_headers[u]), "Range", rh)
                 ELSE Update(DefaultHeaders, domain_headers[u])]

\* ProxyRejects that also turns away the URLs /direct can serve
ProxyRejectsDirect(u) ==
  u = NoUrl \/ can_use_direct(u)

\* "if not url": proxy answers 400 without going upstream
ProxyRejects(u) ==
  u = NoUrl

\* ProxyStatus without the test of the client's Range header
ProxyStatusOfOrigin(rh, code) ==
  IF code = 206 THEN 206 ELSE 200

\* The status of the relayed response
ProxyStatus(rh, code) ==
  IF Truthy(rh) /\ code = 206 THEN 206 ELSE 200

passed_headers ==
  <<"Content-Length", "Accept-Ranges", "Content-Range">>

\* The headers of the relayed response
ProxyHeaders(origin) ==
  [n \in {"Content-Type", "Access-Control-Allow-Origin", "Cache-Control"}
           \cup {passed_headers[i] : i \in
                   {j \in 1..Len(passed_headers) :
                      /\ passed_headers[j] \in DOMAIN origin
                      /\ origin[passed_headers[j]] # ""}} |->
     CASE n = "Content-Type" ->
            Get(origin, "Content-Type", "application/octet-stream")
       [] n = "Access-Control-Allow-Origin" -> "*"
       [] n = "Cache-Control" -> "no-cache"
       [] OTHER -> origin[n]]

\* A successful upstream response: status, headers, length of the body
OriginReply(code, body_len, with_type, with_range) ==
  [code |-> code,
   body_len |-> body_len,
   headers |->
     [n \in (IF with_type THEN {"Content-Type", "Content-Length"} ELSE {})
            \cup (IF with_range THEN {"Content-Range", "Accept-Ranges"}
                  ELSE {}) |->
        CASE n = "Content-Type" -> "video/mp2t"
          [] n = "Content-Length" -> ToString(body_len)
          [] n = "Content-Range" -> "bytes 0-99/500"
          [] n = "Accept-Ranges" -> "bytes"]]

Replies ==
  {OriginReply(code, n, t, cr) :
     code \in {200, 206}, n \in BodyLens, t \in BOOLEAN, cr \in BOOLEAN}

\* What the origin does with the upstream request of /proxy
Outcome(fault, reply) ==
  [fault |-> fault, reply |-> reply]

\* A request on /proxy and what the origin does with it
ProxyInput(u, rh, outcome) ==
  [url |-> u, range_header |-> rh, outcome |-> outcome]

\* Explored under Spec: every URL, one failure and one one-byte body
ProxyInputs ==
  {ProxyInput(u, None, o) :
     u \in URLS \cup {NoUrl},
     o \in {Outcome("refused", NoUp),
            Outcome(None, OriginReply(200, 1, TRUE, FALSE))}}

\* Explored under SpecRelay: one URL, every Range header, every outcome
RelayInputs ==
  {ProxyInput(u, rh, o) :
     u \in {U_mkv, NoUrl},
     rh \in {None, "", "bytes=0-99"},
     o \in {Outcome(f, NoUp) : f \in UpstreamFaults}
           \cup {Outcome(None, reply) : reply \in Replies}}

\* GET /proxy up to the return of the streaming response
proxy(r, inputs) ==
  /\ pc[r] = "idle"
  /\ \E i \in inputs :
       /\ kind' = [kind EXCEPT ![r] = "proxy"]
       /\ url' = [url EXCEPT ![r] = i.url]
       /\ range_header' = [range_header EXCEPT ![r] = i.range_header]
       /\ IF ProxyRejects(i.url)
            THEN /\ resp' = [resp EXCEPT ![r] = MissingUrl]
                 /\ pc' = [pc EXCEPT ![r] = "done"]
                 /\ UNCHANGED <<upreq, up>>
            ELSE /\ upreq' = [upreq EXCEPT ![r] =
                       Append(@, ProxyRequest(i.url, i.range_header))]
                 /\ IF i.outcome.fault # None
                      THEN /\ resp' = [resp EXCEPT ![r] =
                                 ProxyErrorResponse(Raised(i.outcome.fault))]
                           /\ pc' = [pc EXCEPT ![r] = "done"]
                           /\ up' = [up EXCEPT ![r].fault = i.outcome.fault]
                      ELSE /\ up' = [up EXCEPT ![r] =
                                 [fault |-> None,
                                  code |-> i.outcome.reply.code,
                                  headers |-> i.outcome.reply.headers,
                                  body_len |-> i.outcome.reply.body_len,
                                  pos |-> 0,
                                  open |-> TRUE]]
                           /\ resp' = [resp EXCEPT ![r] =
                                 [NoResp EXCEPT
                                    !.status = ProxyStatus(i.range_header,
                                                 i.outcome.reply.code),
                                    !.headers = ProxyHeaders(
                                                 i.outcome.reply.headers)]]
                           /\ pc' = [pc EXCEPT ![r] = "reading"]
  /\ UNCHANGED <<call, now, url_cache, current_time, chunk, sent, total_bytes>>

\* ------------------------------------------------------------------------
\* /proxy: generate()
\* ------------------------------------------------------------------------
\* Sizes response.read(chunk_size) may return when rem bytes are left: all it
\* can, or fewer while short reads are explored
\* A read that returns the whole rest of the body at once
ReadSizesWhole(rem, reads) ==
  {rem}

ReadSizes(rem, reads) ==
  LET full == IF rem < chunk_size THEN rem ELSE chunk_size
  IN  {full} \cup {k \in {1, chunk_size - 1} :
                     k < full /\ reads < MaxShortReads}

\* What response.read(chunk_size) does: it returns n bytes, n = 0 at the end
\* of the body and also when the origin closes the connection early, or it
\* raises when the connection breaks.  The response closes itself on an
\* empty read; nothing in the code closes it
ReadResults(handle, reads) ==
  LET rem == handle.body_len - handle.pos
  IN  {[raises |-> FALSE, n |-> 0]}
        \cup (IF rem > 0
                THEN {[raises |-> FALSE, n |-> k] : k \in ReadSizes(rem, reads)}
                       \cup {[raises |-> TRUE, n |-> 0]}
                ELSE {})

\* EndOfBody that takes a chunk shorter than chunk_size for the end
EndOfBodyShort(n) ==
  n < chunk_size

\* "if not chunk: break"
EndOfBody(n) ==
  n = 0

\* One pass of generate() from response.read to the yield, or to the end
gen_read(r) ==
  /\ pc[r] = "reading"
  /\ \E res \in ReadResults(up[r], Len(sent[r])) :
       IF res.raises
         THEN /\ pc' = [pc EXCEPT ![r] = "aborted"]
              /\ UNCHANGED <<up, chunk>>
         ELSE /\ up' = [up EXCEPT ![r].pos = @ + res.n,
                                  ![r].open = ~EndOfBody(res.n)]
              /\ IF EndOfBody(res.n)
                   THEN /\ pc' = [pc EXCEPT ![r] = "completed"]
                        /\ UNCHANGED chunk
                   ELSE /\ chunk' = [chunk EXCEPT ![r] =
                              [off |-> up[r].pos, len |-> res.n]]
                        /\ pc' = [pc EXCEPT ![r] = "yielded"]
  /\ UNCHANGED <<call, now, url_cache, kind, url, range_header, current_time, upreq,
                 resp, sent, total_bytes>>

\* The server has written the yielded chunk and resumes generate()
gen_resume(r) ==
  /\ pc[r] = "yielded"
  /\ sent' = [sent EXCEPT ![r] = Append(@, chunk[r])]
  /\ total_bytes' = [total_bytes EXCEPT ![r] = @ + chunk[r].len]
  /\ chunk' = [chunk EXCEPT ![r] = NoChunk]
  /\ pc' = [pc EXCEPT ![r] = "reading"]
  /\ UNCHANGED <<call, now, url_cache, kind, url, range_header, current_time, upreq,
                 resp, up>>

\* The client goes away: the server closes generate() at its yield
client_disconnect(r) ==
  /\ pc[r] = "yielded"
  /\ chunk' = [chunk EXCEPT ![r] = NoChunk]
  /\ pc' = [pc EXCEPT ![r] = "aborted"]
  /\ UNCHANGED <<call, now, url_cache, kind, url, range_header, current_time, upreq,
                 resp, up, sent, total_bytes>>

\* ------------------------------------------------------------------------
\* The response has left; the slot is free again
\* ------------------------------------------------------------------------
Finish(r) ==
  /\ pc[r] \in {"done", "completed", "aborted", "crashed"}
  /\ pc' = [pc EXCEPT ![r] = "idle"]
  /\ kind' = [kind EXCEPT ![r] = None]
  /\ url' = [url EXCEPT ![r] = NoUrl]
  /\ range_header' = [range_header EXCEPT ![r] = None]
  /\ current_time' = [current_time EXCEPT ![r] = 0]
  /\ upreq' = [upreq EXCEPT ![r] = <<>>]
  /\ resp' = [resp EXCEPT ![r] = NoResp]
  /\ up' = [up EXCEPT ![r] = NoUp]
  /\ chunk' = [chunk EXCEPT ![r] = NoChunk]
  /\ sent' = [sent EXCEPT ![r] = <<>>]
  /\ total_bytes' = [total_bytes EXCEPT ![r] = 0]
  /\ UNCHANGED <<call, now, url_cache>>

\* ------------------------------------------------------------------------
\* Specifications
\* ------------------------------------------------------------------------
\* The three endpoints over the explored URLs, requests served in turn
\* ------------------------------------------------------------------------
\* can_use_direct applied to composed URLs
\* ------------------------------------------------------------------------
\* Scheme and host: http://c, https://x, http://KCDRDBCX.UPNE.XYZ, http://e98asvyr.okfsdo.xyz
ClassifyHosts ==
  {<<"h", "t", "t", "p", ":", "/", "/", "c">>,
   <<"h", "t", "t", "p", "s", ":", "/", "/", "x">>,
   <<"h", "t", "t", "p", ":", "/", "/", "K", "C", "D", "R", "D", "B", "C", "X", ".", "U", "P", "N", "E", ".", "X", "Y", "Z">>,
   <<"h", "t", "t", "p", ":", "/", "/", "e", "9", "8", "a", "s", "v", "y", "r", ".", "o", "k", "f", "s", "d", "o", ".", "x", "y", "z">>}

\* Directory: /, /movie/, /Serie/, /live/
ClassifyDirs ==
  {<<"/">>,
   <<"/", "m", "o", "v", "i", "e", "/">>,
   <<"/", "S", "e", "r", "i", "e", "/">>,
   <<"/", "l", "i", "v", "e", "/">>}

\* File name: a.m3u8, a.TS, a.mkv, a.AVI, a.mp4.m3u8, a.bin, a.ts?t=1, a
ClassifyFiles ==
  {<<"a", ".", "m", "3", "u", "8">>,
   <<"a", ".", "T", "S">>,
   <<"a", ".", "m", "k", "v">>,
   <<"a", ".", "A", "V", "I">>,
   <<"a", ".", "m", "p", "4", ".", "m", "3", "u", "8">>,
   <<"a", ".", "b", "i", "n">>,
   <<"a", ".", "t", "s", "?", "t", "=", "1">>,
   <<"a">>}

ClassifyURLs ==
  {h \o d \o f : h \in ClassifyHosts, d \in ClassifyDirs, f \in ClassifyFiles}

\* can_use_direct on every composed URL, computed once
classified ==
  [u \in ClassifyURLs |-> can_use_direct(u)]

\* One call can_use_direct(u): the return value is kept with the argument
can_use_direct_call(u) ==
  /\ call.calls < MaxCalls
  /\ call' = [url |-> u, result |-> classified[u],
              calls |-> call.calls + 1]
  /\ UNCHANGED <<now, url_cache, pc, kind, url, range_header, current_time,
                 upreq, resp, up, chunk, sent, total_bytes>>

Next ==
  \/ Tick
  \/ \E r \in Serial :
       \/ direct_redirect(r)
       \/ is_valid_stream_url(r)
       \/ validate_url(r)
       \/ proxy(r, ProxyInputs)
       \/ gen_read(r)
       \/ gen_resume(r)
       \/ client_disconnect(r)
       \/ Finish(r)

Spec ==
  Init /\ [][Next]_vars

\* The relay in depth: every Range header, origin answer and body length
NextRelay ==
  \E r \in Serial :
    \/ proxy(r, RelayInputs)
    \/ gen_read(r)
    \/ gen_resume(r)
    \/ client_disconnect(r)
    \/ Finish(r)

SpecRelay ==
  Init /\ [][NextRelay]_vars

\* The classifier alone, called at any time
NextClassify ==
  \/ Tick
  \/ \E u \in ClassifyURLs : can_use_direct_call(u)

SpecClassify ==
  Init /\ [][NextClassify]_vars

\* Overlapping /direct requests: two threads, interleaved at every step
NextConc ==
  \/ Tick
  \/ \E r \in Reqs :
       \/ direct_enter(r)
       \/ cache_read(r)
       \/ is_valid_stream_url(r)
       \/ Finish(r)

SpecConc ==
  Init /\ [][NextConc]_vars

\* ------------------------------------------------------------------------
\* Vocabulary of the properties
\* ------------------------------------------------------------------------
\* u matches one of the patterns can_use_direct forbids, in any letter case
MatchesForbidden(u) ==
  \E i \in 1..Len(forbidden_patterns) :
    Contains(forbidden_patterns[i], lower(u))

\* u ends with ".m3u8" or ".ts", in any letter case
EndsDirectCompatible(u) ==
  EndsWith(lower(u), P_m3u8) \/ EndsWith(lower(u), P_ts)

matches_forbidden ==
  [u \in URLS |-> MatchesForbidden(u)]

ends_direct_compatible ==
  [u \in URLS |-> EndsDirectCompatible(u)]

\* In this step request r arrives on /direct with a URL that reaches the
\* cache lookup of is_valid_stream_url
DirectLookup(r) ==
  /\ pc[r] = "idle"
  /\ kind'[r] = "direct"
  /\ url'[r] # NoUrl
  /\ ~requires_proxy[url'[r]]

\* In this step the probe of request r returns
ProbeReturns(r) ==
  pc[r] = "probing" /\ pc'[r] = "done"

\* Request r is a /direct request for a URL that reached the cache lookup
DirectValidated(r) ==
  /\ kind[r] = "direct"
  /\ url[r] # NoUrl
  /\ ~requires_proxy[url[r]]

\* ------------------------------------------------------------------------
\* C1: cache TTL.  A lookup at a time t with t - t0 < 300 of a URL whose
\* entry is (t0, v) answers v without a probe; at a time t with
\* t - t0 > 300 the stored verdict is not answered and the URL is probed
\* again; and the probe records (t0, v) with t0 the time of its lookup and v
\* the verdict it answers.
\* ------------------------------------------------------------------------
C1_CacheTTL ==
  [][\A r \in Reqs :
       /\ (DirectLookup(r) /\ url_hash[url'[r]] \in DOMAIN url_cache) =>
            LET e == url_cache[url_hash[url'[r]]]
            IN  /\ now - e[1] < 300 =>
                     /\ pc'[r] = "done"
                     /\ resp'[r] = DirectAnswer(url'[r], e[2])
                /\ now - e[1] > 300 =>
                     /\ pc'[r] = "probing"
                     /\ resp'[r] = NoResp
                     /\ upreq'[r] = <<HeadRequest(url'[r], 5)>>
       /\ ProbeReturns(r) =>
            /\ url_hash[url[r]] \in DOMAIN url_cache'
            /\ url_cache'[url_hash[url[r]]][1] = current_time[r]
            /\ resp'[r] =
                 DirectAnswer(url[r], url_cache'[url_hash[url[r]]][2])
    ]_vars

\* A true entry recorded 301 s before the lookup is being probed again
C1_Witness ==
  \E r \in Reqs :
    /\ DirectValidated(r)
    /\ pc[r] = "probing"
    /\ url_hash[url[r]] \in DOMAIN url_cache
    /\ url_cache[url_hash[url[r]]][2]
    /\ current_time[r] - url_cache[url_hash[url[r]]][1] = 301

\* ------------------------------------------------------------------------
\* C2: fail fast inside the TTL window.  A /direct request that finds a
\* fresh entry (age < 300 s) issues no upstream request, leaves the cache as
\* it is and answers from the cached verdict alone: 400 when it is false,
\* the redirect when it is true.
\* ------------------------------------------------------------------------
C2_FailFast ==
  [][\A r \in Reqs :
       (/\ DirectLookup(r)
        /\ url_hash[url'[r]] \in DOMAIN url_cache
        /\ now - url_cache[url_hash[url'[r]]][1] < 300) =>
          /\ upreq'[r] = <<>>
          /\ url_cache' = url_cache
          /\ pc'[r] = "done"
          /\ resp'[r].status =
               IF url_cache[url_hash[url'[r]]][2] THEN 302 ELSE 400
    ]_vars

\* A request answered 400 from a false entry recorded 299 s earlier, with
\* no upstream request
C2_Witness ==
  \E r \in Reqs :
    /\ DirectValidated(r)
    /\ pc[r] = "done"
    /\ upreq[r] = <<>>
    /\ resp[r].status = 400
    /\ url_hash[url[r]] \in DOMAIN url_cache
    /\ ~url_cache[url_hash[url[r]]][2]
    /\ current_time[r] - url_cache[url_hash[url[r]]][1] = 299

\* ------------------------------------------------------------------------
\* C3: forbidden dominance on the direct path.  A /direct request whose URL
\* matches a forbidden pattern ('.mkv', '.avi', '.mp4', '/movie/',
\* '/serie/', the two hostnames) is answered 400 with the suggestion to use
\* the proxy, with no upstream request, and is never redirected.
\* ------------------------------------------------------------------------
C3_ForbiddenDominance ==
  \A r \in Reqs :
    (/\ kind[r] = "direct"
     /\ url[r] # NoUrl
     /\ matches_forbidden[url[r]]) =>
       /\ pc[r] = "done"
       /\ upreq[r] = <<>>
       /\ resp[r].status = 400
       /\ resp[r].json.suggestion = "use_proxy"

\* ------------------------------------------------------------------------
\* C4: direct redirection is only for .m3u8/.ts.  A /direct request is
\* answered 302 only when its URL ends with '.m3u8' or '.ts'.
\* ------------------------------------------------------------------------
C4_OnlyDirectCompatible ==
  \A r \in Reqs :
    (kind[r] = "direct" /\ resp[r].status = 302) =>
      ends_direct_compatible[url[r]]

\* ------------------------------------------------------------------------
\* C5: direct outcome.  A finished /direct request with a non-empty URL
\* that matches no forbidden pattern is answered by the verdict held for
\* the URL: a 302 whose Location is the input URL exactly and nothing else
\* when reachable, a 400 error when unreachable.
\* ------------------------------------------------------------------------
C5_DirectOutcome ==
  \A r \in Reqs :
    (/\ kind[r] = "direct"
     /\ pc[r] = "done"
     /\ url[r] # NoUrl
     /\ ~matches_forbidden[url[r]]) =>
       /\ url_hash[url[r]] \in DOMAIN url_cache
       /\ IF url_cache[url_hash[url[r]]][2]
            THEN /\ resp[r].status = 302
                 /\ resp[r].location = url[r]
                 /\ resp[r].json = NoJson
            ELSE /\ resp[r].status = 400
                 /\ resp[r].location = <<>>
                 /\ resp[r].json.error # None

\* A reachable playlist URL with an upper-case letter redirected to itself
C5_Witness ==
  \E r \in Reqs :
    /\ kind[r] = "direct"
    /\ pc[r] = "done"
    /\ url[r] = U_hls
    /\ lower(url[r]) # url[r]
    /\ resp[r].status = 302
    /\ resp[r].location = U_hls

\* ------------------------------------------------------------------------
\* C6: proxy is unconditional.  A /proxy request with a non-empty url always
\* sends its one GET request for that URL to the origin and is never
\* rejected with 400, whatever the URL's classification and whatever the
\* cache holds for it; no step of a /proxy request changes url_cache.
\* ------------------------------------------------------------------------
C6_ProxyUnconditional ==
  [][\A r \in Reqs :
       /\ (kind[r] = "proxy" \/ kind'[r] = "proxy") => url_cache' = url_cache
       /\ (pc[r] = "idle" /\ kind'[r] = "proxy" /\ url'[r] # NoUrl) =>
            /\ Len(upreq'[r]) = 1
            /\ upreq'[r][1].method = "GET"
            /\ upreq'[r][1].url = url'[r]
            /\ resp'[r].status # 400
    ]_vars

\* A relay is streaming a direct-compatible URL for which the cache holds a
\* fresh "unreachable" entry
C6_Witness ==
  \E r \in Reqs :
    /\ kind[r] = "proxy"
    /\ pc[r] = "reading"
    /\ url[r] = U_hls
    /\ direct_allowed[url[r]]
    /\ Len(upreq[r]) = 1
    /\ url_hash[url[r]] \in DOMAIN url_cache
    /\ ~url_cache[url_hash[url[r]]][2]
    /\ now - url_cache[url_hash[url[r]]][1] < 300

\* ------------------------------------------------------------------------
\* Vocabulary of the relay properties
\* ------------------------------------------------------------------------
\* Request r is a /proxy request whose upstream request was answered
Relaying(r) ==
  /\ kind[r] = "proxy"
  /\ pc[r] \in {"reading", "yielded", "completed", "aborted"}

\* The client's Range header went to the origin as the client sent it
RangeForwarded(r) ==
  /\ range_header[r] \notin {None, ""}
  /\ "Range" \in DOMAIN upreq[r][1].headers
  /\ upreq[r][1].headers["Range"] = range_header[r]

\* Header name is the same, or absent, in both header dictionaries
SameHeader(name, h1, h2) ==
  /\ name \in DOMAIN h1 <=> name \in DOMAIN h2
  /\ name \in DOMAIN h1 => h1[name] = h2[name]

RECURSIVE Tiles(_, _, _)
\* The chunks, in order, are the bytes from offset from up to offset to:
\* each starts where the one before ends and none is empty
Tiles(chunks, from, to) ==
  IF chunks = <<>>
    THEN from = to
    ELSE /\ Head(chunks).off = from
         /\ Head(chunks).len > 0
         /\ Tiles(Tail(chunks), from + Head(chunks).len, to)

\* ------------------------------------------------------------------------
\* C7: partial-content passthrough.  When the client's Range header was
\* forwarded and the origin answered 206, the relayed response has status
\* 206 and the origin's Content-Range; a Range header that is set is always
\* forwarded unmodified; every other successful relay has status 200.
\* ------------------------------------------------------------------------
C7_PartialContent ==
  \A r \in Reqs :
    Relaying(r) =>
      /\ range_header[r] \notin {None, ""} => RangeForwarded(r)
      /\ IF RangeForwarded(r) /\ up[r].code = 206
           THEN /\ resp[r].status = 206
                /\ SameHeader("Content-Range", up[r].headers, resp[r].headers)
           ELSE resp[r].status = 200

\* Range: bytes=0-99 answered 206 with Content-Range and relayed as 206
C7_Witness ==
  \E r \in Reqs :
    /\ Relaying(r)
    /\ range_header[r] = "bytes=0-99"
    /\ up[r].code = 206
    /\ "Content-Range" \in DOMAIN up[r].headers
    /\ resp[r].status = 206
    /\ resp[r].headers["Content-Range"] = "bytes 0-99/500"

\* ------------------------------------------------------------------------
\* C8: chunked transfer correctness.  When a relay has run to completion
\* and the origin delivered its whole body, the chunks written to the
\* client, in order, are exactly the bytes of the body: nothing dropped,
\* duplicated or reordered, and total_bytes is the length of the body.
\* ------------------------------------------------------------------------
C8_ChunkedTransfer ==
  \A r \in Reqs :
    (/\ kind[r] = "proxy"
     /\ pc[r] = "completed"
     /\ up[r].pos = up[r].body_len) =>
       /\ Tiles(sent[r], 0, up[r].body_len)
       /\ total_bytes[r] = up[r].body_len

\* A body of two chunks and one byte relayed to completion with a short read
C8_Witness ==
  \E r \in Reqs :
    /\ kind[r] = "proxy"
    /\ pc[r] = "completed"
    /\ up[r].body_len = 2 * 32768 + 1
    /\ up[r].pos = up[r].body_len
    /\ Len(sent[r]) = 4
    /\ sent[r][1].len = 32767

\* ------------------------------------------------------------------------
\* C9: a mid-stream failure is never disguised as success.  A relay never
\* ends in the normal-completion state with a body shorter than the
\* origin's.
\* ------------------------------------------------------------------------
C9_NoSilentTruncation ==
  \A r \in Reqs :
    (kind[r] = "proxy" /\ pc[r] = "completed") =>
      total_bytes[r] = up[r].body_len

\* ------------------------------------------------------------------------
\* C10: upstream errors map to 502.  In /proxy every upstream failure
\* before streaming starts yields a 502 with a cause; 500 is never the
\* answer to an upstream fault, and 400 only to a missing url parameter.
\* ------------------------------------------------------------------------
C10_UpstreamErrors502 ==
  \A r \in Reqs :
    (kind[r] = "proxy" /\ pc[r] = "done") =>
      /\ up[r].fault \in UpstreamFaults =>
           (resp[r].status = 502 /\ resp[r].json.error # None)
      /\ resp[r].status = 400 <=> url[r] = NoUrl

\* ------------------------------------------------------------------------
\* C11: every probe records.  Each upstream probe, of /direct's validation
\* step and of /validate alike, leaves in url_cache an entry for the probed
\* URL that holds the probe's verdict: true on success, false on failure.
\* ------------------------------------------------------------------------
C11_EveryProbeRecords ==
  \A r \in Reqs :
    (/\ kind[r] \in {"direct", "validate"}
     /\ pc[r] = "done"
     /\ upreq[r] # <<>>) =>
       /\ url_hash[url[r]] \in DOMAIN url_cache
       /\ url_cache[url_hash[url[r]]][2] = (resp[r].status \in {200, 302})

\* ------------------------------------------------------------------------
\* C12: cache integrity under concurrency.  Under any interleaving of
\* overlapping /direct requests no request crashes, and url_cache changes
\* only when a probe returns: that step writes, under the key of the probed
\* URL and under no other key, the whole pair of the writer's own clock
\* reading and the verdict it answers, whatever entry was there before.
\* ------------------------------------------------------------------------
C12_CacheIntegrity ==
  [][/\ \A r \in Reqs : pc'[r] # "crashed"
     /\ \A r \in Reqs :
          ProbeReturns(r) =>
            /\ url_hash[url[r]] \in DOMAIN url_cache'
            /\ url_cache'[url_hash[url[r]]][1] = current_time[r]
            /\ resp'[r] =
                 DirectAnswer(url[r], url_cache'[url_hash[url[r]]][2])
            /\ \A k \in DOMAIN url_cache \ {url_hash[url[r]]} :
                 k \in DOMAIN url_cache' /\ url_cache'[k] = url_cache[k]
            /\ DOMAIN url_cache' = DOMAIN url_cache \cup {url_hash[url[r]]}
     /\ url_cache' # url_cache => \E r \in Reqs : ProbeReturns(r)
    ]_vars

\* Two probes of one URL raced with different verdicts and different clock
\* readings; the entry is the second writer's
C12_Witness ==
  /\ pc[1] = "done" /\ pc[2] = "done"
  /\ url[1] = url[2]
  /\ upreq[1] # <<>> /\ upreq[2] # <<>>
  /\ resp[1].status = 302 /\ resp[2].status = 400
  /\ current_time[1] # current_time[2]
  /\ url_cache[url_hash[url[2]]] = <<current_time[2], FALSE>>

\* ------------------------------------------------------------------------
\* C13: no retry, one report.  A request issues at most one upstream
\* request: /direct none on a fresh cache hit and exactly one HEAD
\* otherwise, /validate exactly one HEAD, /proxy exactly one GET; a failed
\* probe, a failed connect or a mid-stream failure adds none; and the
\* response of a request, once given, is never replaced.
\* ------------------------------------------------------------------------
C13_NoRetryOneReport ==
  [][\A r \in Reqs :
       /\ Len(upreq'[r]) <= 1
       /\ DirectLookup(r) =>
            Len(upreq'[r]) =
              IF CacheHit(url_cache, url_hash[url'[r]], now) THEN 0 ELSE 1
       /\ (pc[r] # "idle" /\ pc'[r] # "idle") => upreq'[r] = upreq[r]
       /\ (resp[r] # NoResp /\ pc'[r] # "idle") => resp'[r] = resp[r]
       /\ (pc'[r] # "idle" /\ url'[r] # NoUrl) =>
            /\ kind'[r] = "validate" =>
                 (Len(upreq'[r]) = 1 /\ upreq'[r][1].method = "HEAD")
            /\ kind'[r] = "proxy" =>
                 (Len(upreq'[r]) = 1 /\ upreq'[r][1].method = "GET")
       /\ pc'[r] \in {"done", "completed", "aborted"} => resp'[r].status # 0
    ]_vars

\* A /direct request whose one probe failed has answered 400
C13_Witness ==
  \E r \in Reqs :
    /\ DirectValidated(r)
    /\ pc[r] = "done"
    /\ resp[r].status = 400
    /\ Len(upreq[r]) = 1
    /\ url_cache[url_hash[url[r]]] = <<current_time[r], FALSE>>

\* ------------------------------------------------------------------------
\* C14: no orphaned upstream connection.  Once a relay has completed, has
\* failed or has lost its client, it reads no more from the origin and its
\* upstream response handle is closed.
\* ------------------------------------------------------------------------
C14_NoOrphanedUpstream ==
  \A r \in Reqs :
    (kind[r] = "proxy" /\ pc[r] \in {"completed", "aborted"}) =>
      ~up[r].open

\* ------------------------------------------------------------------------
\* C15: header overrides reach every special-header origin.  The request
\* /proxy sends to the origin carries the Referer and Origin of the special
\* origin whose hostname occurs in the URL regardless of letter case, on
\* top of the default headers, and only the default headers for any other
\* URL.
\* ------------------------------------------------------------------------
SpecialOriginHeaders(u) ==
  IF Contains(P_kcd, lower(u))
    THEN [n \in {"Referer", "Origin"} |->
            IF n = "Referer" THEN "https://185.233.16.71/"
            ELSE "https://185.233.16.71"]
    ELSE IF Contains(P_e98, lower(u))
      THEN [n \in {"Referer", "Origin"} |->
              IF n = "Referer" THEN "http://185.233.16.71/"
              ELSE "http://185.233.16.71"]
      ELSE NoHeaders

special_origin_headers ==
  [u \in URLS |-> SpecialOriginHeaders(u)]

C15_HeaderOverrides ==
  \A r \in Reqs :
    (kind[r] = "proxy" /\ upreq[r] # <<>>) =>
      LET h == upreq[r][1].headers
          want == Update(DefaultHeaders, special_origin_headers[url[r]])
      IN /\ DOMAIN h \ {"Range"} = DOMAIN want
         /\ \A n \in DOMAIN want : h[n] = want[n]

\* ------------------------------------------------------------------------
\* C16: validate on an unreachable host.  A /validate request that probed
\* answers either 200 "valid" or, when the probe failed, 400 "invalid" with
\* an error text; the step leaves every cache entry of every other URL as
\* it was, and adds no key other than the validated URL's.
\* ------------------------------------------------------------------------
ValidateProbes(r) ==
  /\ pc[r] = "idle"
  /\ pc'[r] = "done"
  /\ kind'[r] = "validate"
  /\ upreq'[r] # <<>>

C16_ValidateUnreachable ==
  [][\A r \in Reqs : ValidateProbes(r) =>
       /\ resp'[r].json.status \in {"valid", "invalid"}
       /\ resp'[r].json.status = "valid" <=> resp'[r].status = 200
       /\ resp'[r].json.status = "invalid" <=>
            (resp'[r].status = 400 /\ resp'[r].json.error \notin {None, ""})
       /\ \A h \in DOMAIN url_cache \ {url_hash[url'[r]]} :
            h \in DOMAIN url_cache' /\ url_cache'[h] = url_cache[h]
       /\ DOMAIN url_cache' \subseteq DOMAIN url_cache \cup {url_hash[url'[r]]}
    ]_vars

\* A /validate request was answered 400 "invalid" while the cache held the
\* verdicts of earlier /direct requests
C16_Witness ==
  \E r \in Reqs :
    /\ kind[r] = "validate"
    /\ pc[r] = "done"
    /\ upreq[r] # <<>>
    /\ resp[r].status = 400
    /\ resp[r].json.status = "invalid"
    /\ \E h \in DOMAIN url_cache : h # url_hash[url[r]]

\* ------------------------------------------------------------------------
\* C17: classifier rule order.  Every call of can_use_direct returns FALSE
\* when the lower-cased URL contains ".mkv", ".avi", ".mp4", "/movie/",
\* "/serie/" or one of the two special hostnames, whatever its ending, and
\* otherwise returns TRUE exactly when the lower-cased URL ends with ".m3u8"
\* or ".ts"; a second call with the same URL returns what the first did,
\* whatever the clock reads.
\* ------------------------------------------------------------------------
ForbiddenPatterns ==
  {P_mkv, P_avi, P_mp4, P_movie, P_serie, P_e98, P_kcd}

\* The rule of the claim, for every composed URL
ClassifierRule ==
  [u \in ClassifyURLs |->
     IF \E p \in ForbiddenPatterns : Contains(p, lower(u))
       THEN FALSE
       ELSE EndsWith(lower(u), P_m3u8) \/ EndsWith(lower(u), P_ts)]

\* The composed URLs under /movie/ that end with ".ts" in some letter case
MovieSegments ==
  {u \in ClassifyURLs : Contains(P_movie, lower(u)) /\ EndsWith(lower(u), P_ts)}

C17_ClassifierRuleOrder ==
  [][call'.calls > call.calls =>
       /\ call'.result = ClassifierRule[call'.url]
       /\ (call.calls > 0 /\ call.url = call'.url) =>
            call'.result = call.result
    ]_vars

\* A URL under /movie/ that ends with ".ts" was classified twice, at
\* different clock readings or not, and was refused
C17_Witness ==
  /\ call.calls = 2
  /\ call.url \in MovieSegments
  /\ call.result = FALSE

\* ------------------------------------------------------------------------
\* C18: chunk-synchronous backpressure.  After every step of a relay the
\* bytes read from the origin and not yet delivered are at most 32768 and,
\* unless the relay was cut off, exactly the one chunk held at the yield; a
\* read is issued only when everything read before has been delivered and
\* no chunk is held.
\* ------------------------------------------------------------------------
C18_ChunkSynchronous ==
  [][\A r \in Reqs : kind'[r] = "proxy" =>
       /\ up'[r].pos - total_bytes'[r] <= 32768
       /\ chunk'[r].len <= 32768
       /\ pc'[r] # "aborted" => up'[r].pos - total_bytes'[r] = chunk'[r].len
       /\ pc'[r] = "reading" => chunk'[r] = NoChunk
       /\ up'[r].pos > up[r].pos =>
            /\ chunk[r] = NoChunk
            /\ up[r].pos = total_bytes[r]
            /\ pc'[r] = "yielded"
    ]_vars

\* The relay holds the second full chunk after the first was delivered
C18_Witness ==
  \E r \in Reqs :
    /\ kind[r] = "proxy"
    /\ pc[r] = "yielded"
    /\ total_bytes[r] = 32768
    /\ chunk[r] = [off |-> 32768, len |-> 32768]
    /\ up[r].pos = 2 * 32768
    /\ up[r].body_len > up[r].pos

\* ------------------------------------------------------------------------
\* C19: lazy, non-destructive expiry.  No step removes a key of url_cache.
\* An entry changes only in the step where the one probe of a /direct
\* request for its URL returns, and then both fields are new: the clock
\* reading of that request and the verdict it answers.  A /direct request
\* that finds an entry of age 300 s or more leaves it stored and issues
\* exactly one probe.
\* ------------------------------------------------------------------------
C19_LazyExpiry ==
  [][/\ DOMAIN url_cache \subseteq DOMAIN url_cache'
     /\ \A h \in DOMAIN url_cache :
          url_cache'[h] # url_cache[h] =>
            \E r \in Reqs :
              /\ ProbeReturns(r)
              /\ kind[r] = "direct"
              /\ url_hash[url[r]] = h
              /\ Len(upreq[r]) = 1
              /\ upreq'[r] = upreq[r]
              /\ url_cache'[h] = <<current_time[r], resp'[r].status = 302>>
     /\ \A r \in Reqs :
          (/\ DirectLookup(r)
           /\ url_hash[url'[r]] \in DOMAIN url_cache
           /\ now - url_cache[url_hash[url'[r]]][1] >= 300) =>
             /\ url_cache' = url_cache
             /\ pc'[r] = "probing"
             /\ Len(upreq'[r]) = 1
    ]_vars

\* An entry of age exactly 300 s is still stored while its URL is probed
\* again, next to the expired entry of another URL
C19_Witness ==
  \E r \in Reqs :
    /\ DirectValidated(r)
    /\ pc[r] = "probing"
    /\ Len(upreq[r]) = 1
    /\ url_hash[url[r]] \in DOMAIN url_cache
    /\ current_time[r] - url_cache[url_hash[url[r]]][1] = 300
    /\ \E h \in DOMAIN url_cache \ {url_hash[url[r]]} :
         now - url_cache[h][1] >= 300

\* ------------------------------------------------------------------------
\* C20: freshest verdict wins.  As stated: across every step the stored
\* timestamp of an entry never decreases.
\* ------------------------------------------------------------------------
C20_TimestampNeverDecreases ==
  [][\A h \in DOMAIN url_cache :
       h \in DOMAIN url_cache' /\ url_cache'[h][1] >= url_cache[h][1]
    ]_vars

\* C20, amended: last writer wins.  The probe that returns last stores its
\* own entry, the clock reading its request took before probing and its
\* verdict, whether the stored entry is older or newer; a stored timestamp
\* decreases only when the writer read the clock before the stored entry's
\* timestamp, and no stored timestamp is later than the clock.
C20_LastWriterWins ==
  [][/\ \A h \in DOMAIN url_cache' : url_cache'[h][1] <= now'
     /\ \A r \in Reqs : ProbeReturns(r) =>
          url_cache'[url_hash[url[r]]] =
            <<current_time[r], resp'[r].status = 302>>
     /\ \A h \in DOMAIN url_cache :
          url_cache'[h][1] < url_cache[h][1] =>
            \E r \in Reqs :
              /\ ProbeReturns(r)
              /\ url_hash[url[r]] = h
              /\ current_time[r] < url_cache[h][1]
    ]_vars

\* Two overlapping requests for one URL have finished and the entry stored
\* is the one of the request that read the clock first
C20_Witness ==
  /\ pc[1] = "done" /\ pc[2] = "done"
  /\ kind[1] = "direct" /\ kind[2] = "direct"
  /\ url[1] = url[2]
  /\ Len(upreq[1]) = 1 /\ Len(upreq[2]) = 1
  /\ current_time[2] < current_time[1]
  /\ url_cache[url_hash[url[1]]][1] = current_time[2]

====
